---------------------------- MODULE Spec2Model ----------------------------
(***************************************************************************)
(* Model of the generic resource action engine of stormpath_cli/actions.py *)
(* (list / create / update / delete over five resource collections).       *)
(*                                                                         *)
(* One process runs one action: the module is imported (the schema tables  *)
(* are built), one handler runs to completion on the parsed command line,  *)
(* and the process ends.  Python values are records [t, v]; Python dicts   *)
(* are functions whose domain is the set of keys.                          *)
(***************************************************************************)
EXTENDS Naturals, Sequences, FiniteSets, TLC

VARIABLES
    ATTRIBUTE_MAPS, \* the module-level full-schema table (a mutable dict of dicts)
    pc,             \* "ready" (imported, nothing run) or "done" (handler returned/raised)
    action,         \* which handler ran: "list", "create", "update", "delete"
    coll,           \* type(coll): the collection class the handler was given
    args0,          \* the flag dict as handed in by the command line
    attributes,     \* args['<attributes>']: the inline name=value tokens
    stdin,          \* what the operator types and what the remote answers
    gathered,       \* args after _gather_resource_attributes
    args,           \* args when the handler ended (it is mutated in place)
    prompts,        \* the questions put to the operator, in order (prompt() by
                    \* field name, "None" for the directory question, input() by text)
    resolved,       \* result of the handler's first _specialized_query
    attrs,          \* the attribute set handed to _primary_attribute
    primary,        \* what _primary_attribute returned
    calls,          \* collaborator calls made, in order
    writes,         \* fields set on the fetched resource by setattr
    body,           \* positional dict handed to coll.create
    extra,          \* keyword dict handed to coll.create
    groups,         \* identifiers handed to resource.add_group, in order
    error,          \* the exception the handler ended with, if any
    result          \* what the handler returned

vars == <<ATTRIBUTE_MAPS, pc, action, coll, args0, attributes, stdin, gathered,
          args, prompts, resolved, attrs, primary, calls, writes, body, extra,
          groups, error, result>>

-----------------------------------------------------------------------------
(* Bounds of the explored command lines.                                   *)

\* at most this many command-line items (flags, inline tokens, --json) per run
MaxInputs == 3
\* at most this many inline tokens per run
MaxTokens == 2

-----------------------------------------------------------------------------
(* Python values and dicts.                                                *)

None == [t |-> "None", v |-> ""]
Str(s) == [t |-> "str", v |-> s]
Bool(b) == [t |-> "bool", v |-> IF b THEN "True" ELSE "False"]
\* the one-key dict {'href': x}
HrefDict(x) == [t |-> "dict:" \o x.t, v |-> x.v]

\* Python truthiness: None, '' and False are falsy; a one-key dict is truthy
Truthy(x) ==
    CASE x.t = "None" -> FALSE
      [] x.t = "str"  -> x.v # ""
      [] x.t = "bool" -> x.v = "True"
      [] OTHER        -> TRUE

EmptyDict == [k \in {} |-> None]
Get(d, k) == IF k \in DOMAIN d THEN d[k] ELSE None
Put(d, k, x) == [j \in DOMAIN d \cup {k} |-> IF j = k THEN x ELSE d[j]]
Pop(d, k) == [j \in DOMAIN d \ {k} |-> d[j]]
Values(d) == {d[k] : k \in DOMAIN d}

-----------------------------------------------------------------------------
(* The schema tables.                                                      *)

Kinds == {"AccountList", "ApplicationList", "AccountStoreMappingList",
          "DirectoryList", "GroupList"}

NamedMap == ("name" :> "--name") @@ ("description" :> "--description")
            @@ ("href" :> "--href")

\* ATTRIBUTE_MAPS as built when the module is imported
ImportedAttributeMaps ==
    [k \in Kinds |->
        CASE k = "AccountList" ->
                ("username" :> "--username") @@ ("email" :> "--email")
                @@ ("given_name" :> "--given-name")
                @@ ("middle_name" :> "--middle-name")
                @@ ("surname" :> "--surname") @@ ("password" :> "--password")
                @@ ("status" :> "--status") @@ ("href" :> "--href")
          [] k = "AccountStoreMappingList" ->
                ("href" :> "--href") @@ ("account_store" :> "--href")
                @@ ("application" :> "--in-application")
                @@ ("is_default_account_store" :> "--is-default-account-store")
                @@ ("is_default_group_store" :> "--is-default-group-store")
          [] OTHER -> NamedMap]

REQUIRED_ATTRIBUTES ==
    [k \in Kinds |->
        CASE k = "AccountList" ->
                ("email" :> "--email") @@ ("given_name" :> "--given-name")
                @@ ("surname" :> "--surname") @@ ("password" :> "--password")
          [] k = "AccountStoreMappingList" ->
                ("application" :> "--in-application")
                @@ ("account_store" :> "--href")
          [] OTHER -> ("name" :> "--name")]

EXTRA_MAPS == ("ApplicationList" :> ("create_directory" :> "--create-directory"))

\* copies of the imported full schemas, extended with status and q
SEARCH_ATTRIBUTE_MAPS ==
    [k \in Kinds |->
        ("status" :> "--status") @@ ("q" :> "--query") @@ ImportedAttributeMaps[k]]

RESOURCE_PRIMARY_ATTRIBUTES ==
    [k \in Kinds |->
        CASE k = "AccountList" -> <<"email", "href">>
          [] k = "AccountStoreMappingList" -> <<"account_store", "href">>
          [] OTHER -> <<"name", "href">>]

\* Python's str ordering of the semantic names, as sorted() yields them
NameOrder == <<"account_store", "application", "description", "email",
               "given_name", "href", "is_default_account_store",
               "is_default_group_store", "middle_name", "name", "password",
               "status", "surname", "username">>

sorted(S) == LET keep(n) == n \in S IN SelectSeq(NameOrder, keep)

-----------------------------------------------------------------------------
(* Strings the handlers take apart.  A string is a TLA+ string; Lexemes    *)
(* gives, for each string of the explored command lines that the code      *)
(* splits or parses, its decomposition into the pieces the code looks at   *)
(* (separator characters and the runs between them).                       *)

Lexemes(s) ==
    CASE s = "name=t1"          -> <<"name", "=", "t1">>
      [] s = "href=h2"          -> <<"href", "=", "h2">>
      [] s = "given-name=g2"    -> <<"given", "-", "name", "=", "g2">>
      [] s = "name=a=b"         -> <<"name", "=", "a", "=", "b">>
      [] s = "bogus=1"          -> <<"bogus", "=", "1">>
      [] s = "name"             -> <<"name">>
      [] s = "admins, users"    -> <<"admins", ",", " ", "users">>
      [] s = "{\"bogus\":\"1\"}" -> <<"{", "bogus", ":", "1", "}">>
      [] s = "{\"name\":\"n9\",\"href\":\"h9\",\"description\":\"d9\"}" ->
            <<"{", "name", ":", "n9", ",", "href", ":", "h9", ",",
              "description", ":", "d9", "}">>
      [] s = "{\"email\":\"\",\"href\":\"h9\",\"surname\":\"s9\"}" ->
            <<"{", "email", ":", "", ",", "href", ":", "h9", ",",
              "surname", ":", "s9", "}">>
      [] s = "{\"name\":"       -> <<"{", "name", ":">>
      [] OTHER                  -> <<s>>

RECURSIVE JoinStr(_)
JoinStr(seq) == IF seq = <<>> THEN "" ELSE Head(seq) \o JoinStr(Tail(seq))

\* index of the first occurrence of x in seq, 0 when there is none
RECURSIVE IndexFrom(_, _, _)
IndexFrom(seq, x, i) ==
    IF i > Len(seq) THEN 0
    ELSE IF seq[i] = x THEN i ELSE IndexFrom(seq, x, i + 1)
IndexOf(seq, x) == IndexFrom(seq, x, 1)

\* str.replace(a, b)
replace(seq, a, b) == [i \in DOMAIN seq |-> IF seq[i] = a THEN b ELSE seq[i]]

\* str.split(sep): the runs between the separators, in order
RECURSIVE split(_, _)
split(seq, sep) ==
    LET i == IndexOf(seq, sep) IN
    IF i = 0 THEN <<seq>>
    ELSE <<SubSeq(seq, 1, i - 1)>> \o split(SubSeq(seq, i + 1, Len(seq)), sep)

\* str.strip(): leading and trailing blanks removed
RECURSIVE strip(_)
strip(seq) ==
    IF seq = <<>> THEN seq
    ELSE IF Head(seq) = " " THEN strip(Tail(seq))
    ELSE IF seq[Len(seq)] = " " THEN strip(SubSeq(seq, 1, Len(seq) - 1))
    ELSE seq

\* str.upper() on the answers the operator can give
upper(s) ==
    CASE s = "y"   -> "Y"
      [] s = "n"   -> "N"
      [] s = "yes" -> "YES"
      [] OTHER     -> s

JsonPunctuation == {"{", "}", ":", ","}

\* the members of a JSON object from position i on: "key" : "value" , ... }
RECURSIVE JsonMembers(_, _, _)
JsonMembers(lx, i, acc) ==
    IF i + 3 > Len(lx) THEN [ok |-> FALSE, value |-> EmptyDict]
    ELSE IF \/ lx[i] \in JsonPunctuation
            \/ lx[i + 1] # ":"
            \/ lx[i + 2] \in JsonPunctuation
         THEN [ok |-> FALSE, value |-> EmptyDict]
    ELSE LET acc2 == Put(acc, lx[i], Str(lx[i + 2])) IN
         IF lx[i + 3] = "}" THEN [ok |-> i + 3 = Len(lx),
                                  value |-> IF i + 3 = Len(lx) THEN acc2
                                            ELSE EmptyDict]
         ELSE IF lx[i + 3] = "," THEN JsonMembers(lx, i + 4, acc2)
         ELSE [ok |-> FALSE, value |-> EmptyDict]

\* json.loads on an object of string members; ok = FALSE is a ValueError
loads(s) ==
    LET lx == Lexemes(s) IN
    IF Len(lx) < 2 \/ lx[1] # "{" THEN [ok |-> FALSE, value |-> EmptyDict]
    ELSE IF Len(lx) = 2 /\ lx[2] = "}" THEN [ok |-> TRUE, value |-> EmptyDict]
    ELSE JsonMembers(lx, 2, EmptyDict)

-----------------------------------------------------------------------------
(* Exceptions.  The handlers raise ValueError with three kinds of message; *)
(* the kind and the part of the message that varies are kept.              *)

NoError == [type |-> "", detail |-> ""]
\* ValueError('Unknown resource attribute: {}')
UnknownAttribute(name) == [type |-> "UnknownAttribute", detail |-> name]
\* ValueError("Error parsing JSON: %s")
MalformedPayload(text) == [type |-> "MalformedPayload", detail |-> text]
\* ValueError("Required attribute '{}' not specified.")
MissingIdentifier(names) == [type |-> "MissingIdentifier", detail |-> names]
\* an error of the remote collaborator, passed through
RemoteError == [type |-> "RemoteError", detail |-> "not found"]

-----------------------------------------------------------------------------
(* The helpers of actions.py.                                              *)

\* the loop of _gather_resource_attributes from token i on
RECURSIVE GatherFrom(_, _, _, _)
GatherFrom(schema, a, toks, i) ==
    IF i > Len(toks) THEN [error |-> NoError, args |-> a]
    ELSE LET lx    == Lexemes(toks[i])
             eq    == IndexOf(lx, "=")
             name  == JoinStr(replace(SubSeq(lx, 1, eq - 1), "-", "_"))
             value == JoinStr(SubSeq(lx, eq + 1, Len(lx)))
         IN  IF eq = 0
             THEN [error |-> UnknownAttribute(toks[i]), args |-> a]
             ELSE IF name \notin DOMAIN schema
             THEN [error |-> UnknownAttribute(name), args |-> a]
             ELSE GatherFrom(schema, Put(a, schema[name], Str(value)), toks, i + 1)

\* a gather loop that skips a token it does not know instead of raising
RECURSIVE GatherSkipping(_, _, _, _)
GatherSkipping(schema, a, toks, i) ==
    IF i > Len(toks) THEN [error |-> NoError, args |-> a]
    ELSE LET lx    == Lexemes(toks[i])
             eq    == IndexOf(lx, "=")
             name  == JoinStr(replace(SubSeq(lx, 1, eq - 1), "-", "_"))
             value == JoinStr(SubSeq(lx, eq + 1, Len(lx)))
         IN  IF eq = 0 \/ name \notin DOMAIN schema
             THEN GatherSkipping(schema, a, toks, i + 1)
             ELSE GatherSkipping(schema, Put(a, schema[name], Str(value)), toks, i + 1)

gather_skipping_unknown(maps, c, a, toks) == GatherSkipping(maps[c], a, toks, 1)

_gather_resource_attributes(maps, c, a, toks) == GatherFrom(maps[c], a, toks, 1)

_specialized_query(c, a, maps) ==
    LET json_rep == Get(a, "--json") IN
    IF Truthy(json_rep)
    THEN LET r == loads(json_rep.v) IN
         IF r.ok THEN [error |-> NoError, value |-> r.value]
         ELSE [error |-> MalformedPayload(json_rep.v), value |-> EmptyDict]
    ELSE LET pmap   == IF c \in DOMAIN maps THEN maps[c] ELSE EmptyDict
             params == {n \in DOMAIN pmap : Truthy(Get(a, pmap[n]))}
         IN  [error |-> NoError, value |-> [n \in params |-> a[pmap[n]]]]

_primary_attribute(c, at) ==
    LET attr_names  == RESOURCE_PRIMARY_ATTRIBUTES[c]
        has(n)      == Truthy(Get(at, n))
        found_names == SelectSeq(attr_names, has)
        attr_values == [i \in DOMAIN found_names |-> Get(at, found_names[i])]
    IN  IF attr_values = <<>>
        THEN [error |-> MissingIdentifier(attr_names[1] \o " or " \o attr_names[2]),
              name |-> "", value |-> None]
        ELSE [error |-> NoError, name |-> attr_names[1], value |-> attr_values[1]]

_check_account_store_mapping(c, at) ==
    IF c = "AccountStoreMappingList"
    THEN LET at1 == Put(at, "application", HrefDict(Get(at, "application")))
         IN  Put(at1, "account_store", HrefDict(Get(at1, "account_store")))
    ELSE at

\* prompt(arg, msg) of the output module: what the operator typed for arg
prompt(arg, io) == Str(IF arg \in io.answered THEN "typed-" \o arg ELSE "")

\* len(supplied_required_arguments) == required_coll_args.values(): Python
\* compares an int with a list (a dict view), which are never equal
IntEqualsValues(n, vals) == FALSE

\* the loop over sorted(remaining_coll_args) from position i on
RECURSIVE PromptFrom(_, _, _, _, _)
PromptFrom(all_coll_args, order, a, io, i) ==
    IF i > Len(order) THEN a
    ELSE PromptFrom(all_coll_args, order,
                    Put(a, all_coll_args[order[i]], prompt(order[i], io)), io, i + 1)

\* the fields prompted for: all whose flag is not that of a supplied required one
RemainingCollArgs(all_coll_args, supplied) ==
    {k \in DOMAIN all_coll_args :
        all_coll_args[k] \in Values(all_coll_args) \ supplied}

_prompt_if_missing_parameters(maps, c, a, io) ==
    LET required_coll_args == REQUIRED_ATTRIBUTES[c]
        all_coll_args      == Pop(maps[c], "href")
        maps1              == [maps EXCEPT ![c] = all_coll_args]
        supplied           == {f \in Values(required_coll_args) : Truthy(Get(a, f))}
        remaining          == RemainingCollArgs(all_coll_args, supplied)
        order              == sorted(remaining)
        a1                 == PromptFrom(all_coll_args, order, a, io, 1)
    IN  IF IntEqualsValues(Cardinality(supplied), Values(required_coll_args))
        THEN [maps |-> maps1, args |-> a, prompts |-> <<>>]
        ELSE IF remaining = {}
        THEN [maps |-> maps1, args |-> a, prompts |-> <<>>]
        ELSE IF c \in DOMAIN EXTRA_MAPS
        THEN [maps |-> maps1,
              args |-> Put(a1, "--create-directory", Bool(io.directory # "n")),
              prompts |-> order \o <<"None">>]
        ELSE [maps |-> maps1, args |-> a1, prompts |-> order]

\* hasattr(resource, 'add_group'): only account resources attach groups
HasAddGroup(c) == c = "AccountList"

\* the identifiers _add_resource_to_groups hands to resource.add_group
_add_resource_to_groups(c, a) ==
    LET arg_groups == Get(a, "--groups")
        parts      == split(Lexemes(arg_groups.v), ",")
    IN  IF Truthy(arg_groups) /\ HasAddGroup(c)
        THEN [i \in DOMAIN parts |-> JoinStr(strip(parts[i]))]
        ELSE <<>>

\* get_resource of the resources module: the instance found, or a remote error
get_resource(c, attr_name, attr_value, io) ==
    [ok |-> io.found,
     fields |-> Put(("href" :> Str("https://api/r1")), attr_name, attr_value)]

\* get_resource_data of the resources module: the record shown for a resource
get_resource_data(fields) == [kind |-> "record", data |-> fields, filter |-> EmptyDict]

NoResult == [kind |-> "None", data |-> EmptyDict, filter |-> EmptyDict]

\* n copies of the call name x
Repeat(x, n) == [i \in 1..n |-> x]

-----------------------------------------------------------------------------
(* The four handlers.  Each yields the record of everything the run did:   *)
(* the tables and the args dict as it left them, what it resolved, the     *)
(* collaborator calls it made, and the exception or the value it ended in. *)

Started(maps, a) ==
    [maps |-> maps, gathered |-> a, args |-> a, prompts |-> <<>>,
     resolved |-> [ok |-> FALSE, value |-> EmptyDict], attrs |-> EmptyDict,
     primary |-> [ok |-> FALSE, name |-> "", value |-> None],
     calls |-> <<>>, writes |-> EmptyDict, body |-> EmptyDict,
     extra |-> EmptyDict, groups |-> <<>>, error |-> NoError, result |-> NoResult]

list_resources(maps, c, a, toks, io) ==
    LET g  == _gather_resource_attributes(maps, c, a, toks)
        st == [Started(maps, g.args) EXCEPT !.error = g.error]
        q  == _specialized_query(c, g.args, SEARCH_ATTRIBUTE_MAPS)
        queried == c # "AccountStoreMappingList" /\ q.value # EmptyDict
    IN  IF g.error # NoError THEN st
        ELSE IF q.error # NoError THEN [st EXCEPT !.error = q.error]
        ELSE [st EXCEPT
                !.resolved = [ok |-> TRUE, value |-> q.value],
                !.attrs = q.value,
                !.calls = IF queried THEN <<"query", "iterate">> ELSE <<"iterate">>,
                !.result = [kind |-> "records", data |-> EmptyDict,
                            filter |-> IF queried THEN q.value ELSE EmptyDict]]

\* a create that calls the collaborator before it validates the identifier
CreateBeforeValidating(c, st, at) ==
    LET p   == _primary_attribute(c, at)
        x   == _specialized_query(c, st.args, EXTRA_MAPS)
        st1 == [st EXCEPT !.attrs = at, !.body = at, !.extra = x.value,
                          !.calls = <<"create">>]
    IN  IF p.error # NoError THEN [st1 EXCEPT !.error = p.error]
        ELSE [st1 EXCEPT
                !.primary = [ok |-> TRUE, name |-> p.name, value |-> p.value],
                !.result = get_resource_data(Put(at, "href", Str("https://api/new")))]

\* create_resource from _primary_attribute on: validate, create, attach groups
CreateResolved(c, st, at) ==
    LET p   == _primary_attribute(c, at)
        x   == _specialized_query(c, st.args, EXTRA_MAPS)
        grp == _add_resource_to_groups(c, st.args)
        st1 == [st EXCEPT !.attrs = at]
    IN  IF p.error # NoError THEN [st1 EXCEPT !.error = p.error]
        ELSE IF x.error # NoError
        THEN [st1 EXCEPT !.primary = [ok |-> TRUE, name |-> p.name, value |-> p.value],
                         !.error = x.error]
        ELSE [st1 EXCEPT
                !.primary = [ok |-> TRUE, name |-> p.name, value |-> p.value],
                !.body = at,
                !.extra = x.value,
                !.calls = <<"create">> \o Repeat("add_group", Len(grp)),
                !.groups = grp,
                !.result = get_resource_data(Put(at, "href", Str("https://api/new")))]

create_resource(maps, c, a, toks, io) ==
    LET g  == _gather_resource_attributes(maps, c, a, toks)
        pr == _prompt_if_missing_parameters(maps, c, g.args, io)
        q  == _specialized_query(c, pr.args, pr.maps)
        st == [Started(maps, g.args) EXCEPT !.error = g.error]
        st1 == [st EXCEPT !.maps = pr.maps, !.args = pr.args, !.prompts = pr.prompts]
    IN  IF g.error # NoError THEN st
        ELSE IF q.error # NoError THEN [st1 EXCEPT !.error = q.error]
        ELSE CreateResolved(c, [st1 EXCEPT !.resolved = [ok |-> TRUE, value |-> q.value]],
                            _check_account_store_mapping(c, q.value))

\* an update loop that forgets to skip href
UpdateWritesHrefToo(at, attr_name) ==
    [n \in {k \in DOMAIN at : ~(k = attr_name)} |-> at[n]]

\* the loop of update_resource: the fields it sets on the fetched resource
UpdateWrites(at, attr_name) ==
    [n \in {k \in DOMAIN at : ~(k = attr_name \/ k = "href")} |-> at[n]]

update_resource(maps, c, a, toks, io) ==
    LET g  == _gather_resource_attributes(maps, c, a, toks)
        q  == _specialized_query(c, g.args, maps)
        p  == _primary_attribute(c, q.value)
        r  == get_resource(c, p.name, p.value, io)
        w  == UpdateWrites(q.value, p.name)
        grp == _add_resource_to_groups(c, g.args)
        st == [Started(maps, g.args) EXCEPT !.error = g.error]
        st1 == [st EXCEPT !.resolved = [ok |-> TRUE, value |-> q.value],
                          !.attrs = q.value]
        st2 == [st1 EXCEPT !.primary = [ok |-> TRUE, name |-> p.name, value |-> p.value],
                           !.calls = <<"get">>]
    IN  IF g.error # NoError THEN st
        ELSE IF q.error # NoError THEN [st EXCEPT !.error = q.error]
        ELSE IF p.error # NoError THEN [st1 EXCEPT !.error = p.error]
        ELSE IF ~r.ok THEN [st2 EXCEPT !.error = RemoteError]
        ELSE [st2 EXCEPT
                !.calls = <<"get">> \o Repeat("setattr", Cardinality(DOMAIN w))
                          \o <<"save">> \o Repeat("add_group", Len(grp)),
                !.writes = w,
                !.groups = grp,
                !.result = get_resource_data(w @@ r.fields)]

\* a confirmation test that forgets upper()
DeclinedCaseSensitive(resp) == resp # "y"

\* resp.upper() != 'Y': the operator did not confirm
Declined(resp) == upper(resp) # "Y"

delete_resource(maps, c, a, toks, io) ==
    LET g  == _gather_resource_attributes(maps, c, a, toks)
        q  == _specialized_query(c, g.args, maps)
        p  == _primary_attribute(c, q.value)
        r  == get_resource(c, p.name, p.value, io)
        data  == get_resource_data(r.fields)
        force == Truthy(Get(g.args, "--force"))
        st == [Started(maps, g.args) EXCEPT !.error = g.error]
        st1 == [st EXCEPT !.resolved = [ok |-> TRUE, value |-> q.value],
                          !.attrs = q.value]
        st2 == [st1 EXCEPT !.primary = [ok |-> TRUE, name |-> p.name, value |-> p.value],
                           !.calls = <<"get">>]
    IN  IF g.error # NoError THEN st
        ELSE IF q.error # NoError THEN [st EXCEPT !.error = q.error]
        ELSE IF p.error # NoError THEN [st1 EXCEPT !.error = p.error]
        ELSE IF ~r.ok THEN [st2 EXCEPT !.error = RemoteError]
        ELSE IF ~force /\ Declined(io.confirm)
        THEN [st2 EXCEPT !.prompts = <<"Delete this resource [y/N]? ">>]
        ELSE [st2 EXCEPT !.prompts = IF force THEN <<>>
                                     ELSE <<"Delete this resource [y/N]? ">>,
                         !.calls = <<"get", "delete">>,
                         !.result = IF force THEN data ELSE NoResult]

-----------------------------------------------------------------------------
(* The command lines and operator inputs explored.                         *)

\* the flags a handler reads from the command line for a collection
FlagPool(act, c) ==
    CASE act = "list"   -> Values(SEARCH_ATTRIBUTE_MAPS[c])
      [] act = "delete" -> Values(ImportedAttributeMaps[c]) \cup {"--force"}
      [] OTHER          -> Values(ImportedAttributeMaps[c]) \cup {"--groups"}

CliValue(f) ==
    CASE f = "--force"  -> Bool(TRUE)
      [] f = "--groups" -> Str("admins, users")
      [] OTHER          -> Str("cli" \o f)

JsonPool == {"{\"bogus\":\"1\"}",
             "{\"name\":\"n9\",\"href\":\"h9\",\"description\":\"d9\"}",
             "{\"email\":\"\",\"href\":\"h9\",\"surname\":\"s9\"}",
             "{\"name\":"}

TokenPool == {"name=t1", "name=a=b", "href=h2", "given-name=g2", "bogus=1", "name"}

TokenLists == UNION {[1..n -> TokenPool] : n \in 0..MaxTokens}

\* the flag dicts of at most n items, with or without a --json payload
ArgDicts(act, c, n) ==
    {[f \in S |-> CliValue(f)] :
        S \in {T \in SUBSET FlagPool(act, c) : Cardinality(T) <= n}}
    \cup
    {("--json" :> Str(j)) @@ [f \in S |-> CliValue(f)] :
        j \in JsonPool,
        S \in {T \in SUBSET FlagPool(act, c) : Cardinality(T) + 1 <= n}}

\* the operator answers either no prompt, the required ones, or all of them
AnswerSets(c) == {{}, DOMAIN REQUIRED_ATTRIBUTES[c], DOMAIN ImportedAttributeMaps[c]}

ConfirmAnswers == {"y", "Y", "N", "yes", ""}

Silent == [answered |-> {}, directory |-> "", confirm |-> "", found |-> TRUE]

-----------------------------------------------------------------------------
(* The state machine: one process, one handler.                            *)

Init ==
    /\ ATTRIBUTE_MAPS = ImportedAttributeMaps
    /\ pc = "ready"
    /\ action = ""
    /\ coll = ""
    /\ args0 = EmptyDict
    /\ attributes = <<>>
    /\ stdin = Silent
    /\ gathered = EmptyDict
    /\ args = EmptyDict
    /\ prompts = <<>>
    /\ resolved = [ok |-> FALSE, value |-> EmptyDict]
    /\ attrs = EmptyDict
    /\ primary = [ok |-> FALSE, name |-> "", value |-> None]
    /\ calls = <<>>
    /\ writes = EmptyDict
    /\ body = EmptyDict
    /\ extra = EmptyDict
    /\ groups = <<>>
    /\ error = NoError
    /\ result = NoResult

\* the handler named act ran on (c, a, toks) with operator input io and ended in r
Ran(act, c, a, toks, io, r) ==
    /\ pc' = "done"
    /\ action' = act
    /\ coll' = c
    /\ args0' = a
    /\ attributes' = toks
    /\ stdin' = io
    /\ ATTRIBUTE_MAPS' = r.maps
    /\ gathered' = r.gathered
    /\ args' = r.args
    /\ prompts' = r.prompts
    /\ resolved' = r.resolved
    /\ attrs' = r.attrs
    /\ primary' = r.primary
    /\ calls' = r.calls
    /\ writes' = r.writes
    /\ body' = r.body
    /\ extra' = r.extra
    /\ groups' = r.groups
    /\ error' = r.error
    /\ result' = r.result

List ==
    /\ pc = "ready"
    /\ \E c \in Kinds, toks \in TokenLists :
         \E a \in ArgDicts("list", c, MaxInputs - Len(toks)) :
            Ran("list", c, a, toks, Silent,
                list_resources(ATTRIBUTE_MAPS, c, a, toks, Silent))

Create ==
    /\ pc = "ready"
    /\ \E c \in Kinds, toks \in TokenLists :
         \E a \in ArgDicts("create", c, MaxInputs - Len(toks)), ans \in AnswerSets(c),
            dir \in IF c \in DOMAIN EXTRA_MAPS THEN {"", "n"} ELSE {""} :
            LET io == [Silent EXCEPT !.answered = ans, !.directory = dir]
            IN  Ran("create", c, a, toks, io,
                    create_resource(ATTRIBUTE_MAPS, c, a, toks, io))

Update ==
    /\ pc = "ready"
    /\ \E c \in Kinds, toks \in TokenLists :
         \E a \in ArgDicts("update", c, MaxInputs - Len(toks)), found \in BOOLEAN :
            LET io == [Silent EXCEPT !.found = found]
            IN  Ran("update", c, a, toks, io,
                    update_resource(ATTRIBUTE_MAPS, c, a, toks, io))

Delete ==
    /\ pc = "ready"
    /\ \E c \in Kinds, toks \in TokenLists :
         \E a \in ArgDicts("delete", c, MaxInputs - Len(toks)), found \in BOOLEAN :
            \E resp \in IF found /\ "--force" \notin DOMAIN a
                        THEN ConfirmAnswers ELSE {""} :
               LET io == [Silent EXCEPT !.found = found, !.confirm = resp]
               IN  Ran("delete", c, a, toks, io,
                       delete_resource(ATTRIBUTE_MAPS, c, a, toks, io))

\* the process ends; the next command line starts a fresh one (a new import)
NewProcess ==
    /\ pc = "done"
    /\ ATTRIBUTE_MAPS' = ImportedAttributeMaps
    /\ pc' = "ready"
    /\ action' = ""
    /\ coll' = ""
    /\ args0' = EmptyDict
    /\ attributes' = <<>>
    /\ stdin' = Silent
    /\ gathered' = EmptyDict
    /\ args' = EmptyDict
    /\ prompts' = <<>>
    /\ resolved' = [ok |-> FALSE, value |-> EmptyDict]
    /\ attrs' = EmptyDict
    /\ primary' = [ok |-> FALSE, name |-> "", value |-> None]
    /\ calls' = <<>>
    /\ writes' = EmptyDict
    /\ body' = EmptyDict
    /\ extra' = EmptyDict
    /\ groups' = <<>>
    /\ error' = NoError
    /\ result' = NoResult

Next == List \/ Create \/ Update \/ Delete \/ NewProcess

Spec == Init /\ [][Next]_vars

-----------------------------------------------------------------------------
(* What the claims speak of, stated apart from the handlers.               *)

Range(seq) == {seq[i] : i \in DOMAIN seq}
Done == pc = "done"
MutatingCalls == {"create", "setattr", "save", "delete", "add_group"}
ValidationErrors == {"UnknownAttribute", "MalformedPayload", "MissingIdentifier"}

\* a value the payload really holds: not absent, not empty, not {'href': nothing}
Present(x) ==
    CASE x.t = "dict:None" -> FALSE
      [] x.t = "dict:str"  -> x.v # ""
      [] OTHER             -> Truthy(x)

\* positions of the candidate identifying fields that have a non-empty value in at
CandidatesIn(c, at) ==
    {i \in DOMAIN RESOURCE_PRIMARY_ATTRIBUTES[c] :
        Truthy(Get(at, RESOURCE_PRIMARY_ATTRIBUTES[c][i]))}
Least(S) == CHOOSE i \in S : \A j \in S : i <= j
Greatest(S) == CHOOSE i \in S : \A j \in S : j <= i
\* the first candidate identifying field with a non-empty value in at
FirstCandidate(c, at) == RESOURCE_PRIMARY_ATTRIBUTES[c][Least(CandidatesIn(c, at))]

\* an inline token: whether it has an '=', its normalised name, its value
TokenHasEq(tok) == "=" \in Range(Lexemes(tok))
TokenName(tok) ==
    LET lx == Lexemes(tok) IN
    JoinStr(replace(SubSeq(lx, 1, IndexOf(lx, "=") - 1), "-", "_"))
TokenValue(tok) ==
    LET lx == Lexemes(tok) IN JoinStr(SubSeq(lx, IndexOf(lx, "=") + 1, Len(lx)))
BadToken(c, tok) ==
    ~TokenHasEq(tok) \/ TokenName(tok) \notin DOMAIN ImportedAttributeMaps[c]
BadTokens == {i \in DOMAIN attributes : BadToken(coll, attributes[i])}
\* positions of the inline tokens recorded under flag f
TokensFor(f) ==
    {i \in DOMAIN attributes : ImportedAttributeMaps[coll][TokenName(attributes[i])] = f}

JsonGiven == Truthy(Get(args0, "--json"))

-----------------------------------------------------------------------------
(* The claims.                                                             *)

\* C1: whenever the primary-key resolver returns, the field name it returns is
\* the first field of the kind's PrimaryAttributeOrder with a non-empty value
\* in attrs, and the value it returns is that field's value.
C1_PrimaryNameMatchesValue ==
    (Done /\ primary.ok) =>
        /\ primary.name = FirstCandidate(coll, attrs)
        /\ primary.value = Get(attrs, primary.name)

\* C2: create calls the collaborator's create only with a payload that holds a
\* non-empty identifying field of the kind; a create whose resolved attributes
\* hold none ends with MissingIdentifier and makes no call; the {href: value}
\* nesting of application / account_store is applied only to values present.
C2_CreateNeedsIdentifier ==
    (Done /\ action = "create") =>
        /\ "create" \in Range(calls) =>
              \E n \in Range(RESOURCE_PRIMARY_ATTRIBUTES[coll]) : Present(Get(body, n))
        /\ (resolved.ok /\ CandidatesIn(coll, resolved.value) = {}) =>
              (error.type = "MissingIdentifier" /\ calls = <<>>)
        /\ \A k \in {"application", "account_store"} :
              k \in DOMAIN attrs => k \in DOMAIN resolved.value

\* C3: when --json is given and parses, resolution succeeds with exactly the
\* parsed mapping, whatever flags and inline tokens come with it.
C3_JsonBypassesInline ==
    (Done /\ JsonGiven /\ loads(args0["--json"].v).ok) =>
        /\ error.type # "UnknownAttribute"
        /\ resolved.ok
        /\ resolved.value = loads(args0["--json"].v).value

\* C4: in create, when every required field already has a non-empty supplied
\* value, the prompter asks nothing and leaves the arguments unchanged.
C4_NoPromptWhenRequiredSupplied ==
    (/\ Done /\ action = "create" /\ error.type # "UnknownAttribute"
     /\ \A f \in Values(REQUIRED_ATTRIBUTES[coll]) : Truthy(Get(gathered, f)))
    => (prompts = <<>> /\ args = gathered)

\* C5: a run that ends with UnknownAttribute, MalformedPayload or
\* MissingIdentifier has made no mutating collaborator call (create, field
\* write, save, delete, add_group).
C5_ValidationErrorsFailFast ==
    (Done /\ error.type \in ValidationErrors) =>
        /\ Range(calls) \cap MutatingCalls = {}
        /\ writes = EmptyDict
        /\ body = EmptyDict
        /\ groups = <<>>

\* C5 witness: a create that prompted the operator and then ended with
\* MissingIdentifier although groups were to be attached.
C5_Witness ==
    /\ Done /\ action = "create" /\ error.type = "MissingIdentifier"
    /\ prompts # <<>>
    /\ Truthy(Get(args, "--groups"))

\* C6: delete calls the collaborator's delete exactly when the resource was
\* fetched and either --force is set or the operator answered y or Y; a forced
\* delete asks nothing and returns the record taken before the deletion; any
\* other delete returns nothing.
C6_DeleteIffForcedOrConfirmed ==
    (Done /\ action = "delete") =>
        LET force   == Truthy(Get(args0, "--force"))
            fetched == primary.ok /\ stdin.found
            before  == get_resource_data(
                          get_resource(coll, primary.name, primary.value, stdin).fields)
        IN  /\ "delete" \in Range(calls)
                 <=> (fetched /\ (force \/ stdin.confirm \in {"y", "Y"}))
            /\ (fetched /\ force) => (prompts = <<>> /\ result = before)
            /\ ~(fetched /\ force) => result = NoResult
            /\ (fetched /\ ~force) => Len(prompts) = 1

\* C6 witness: an unforced delete confirmed with a capital Y went through.
C6_Witness ==
    /\ Done /\ action = "delete" /\ ~Truthy(Get(args0, "--force"))
    /\ stdin.confirm = "Y"
    /\ calls = <<"get", "delete">>
    /\ result = NoResult

C8_UnknownInlineRejected ==
    Done =>
        IF BadTokens # {}
        THEN LET tok == attributes[Least(BadTokens)] IN
             /\ error = UnknownAttribute(IF TokenHasEq(tok) THEN TokenName(tok) ELSE tok)
             /\ calls = <<>>
        ELSE /\ error.type # "UnknownAttribute"
             /\ DOMAIN gathered =
                   DOMAIN args0 \cup {ImportedAttributeMaps[coll][TokenName(attributes[i])] :
                                         i \in DOMAIN attributes}
             /\ \A f \in DOMAIN gathered :
                   gathered[f] = IF TokensFor(f) # {}
                                 THEN Str(TokenValue(attributes[Greatest(TokensFor(f))]))
                                 ELSE args0[f]

\* C8 witness: a known token was recorded and the token after it, of unknown
\* name, ended the run.
C8_Witness ==
    /\ Done /\ Len(attributes) = 2
    /\ error = UnknownAttribute("bogus")
    /\ gathered # args0

\* C9: the schema tables are never changed: the full schema of every kind is as
\* imported, so an --href given to create is resolved into the attribute set.
C9_RegistryReadOnly ==
    /\ ATTRIBUTE_MAPS = ImportedAttributeMaps
    /\ (Done /\ action = "create" /\ resolved.ok /\ ~JsonGiven
        /\ Truthy(Get(args, "--href"))) => "href" \in DOMAIN resolved.value

\* C10: when create prompts, it prompts only for full-schema fields that have no
\* non-empty supplied value, in sorted order of name, and no supplied value is
\* overwritten by what the operator types.
C10_PromptsOnlyUnsupplied ==
    (Done /\ action = "create") =>
        LET schema == ImportedAttributeMaps[coll]
            asked  == Range(prompts) \ {"None"}
        IN  /\ \A n \in asked : n \in DOMAIN schema /\ ~Truthy(Get(gathered, schema[n]))
            /\ SelectSeq(prompts, LAMBDA n : n # "None") = sorted(asked)
            /\ \A f \in DOMAIN gathered :
                  (f \in Values(schema) /\ Truthy(gathered[f])) => args[f] = gathered[f]

=============================================================================
